---- MODULE Spec2Model ----
(***************************************************************************)
(* The `scrape` command of hatching-triage.py and the three endpoints of   *)
(* HatchingTriageApi it drives (feed, report, download), as a state        *)
(* machine over the target directory (reports/, samples/, state.json),     *)
(* the remote service and the position of the running process.             *)
(*                                                                         *)
(* Spec        scrape runs that run to their end                           *)
(* SpecFeed    the same with the `feed` command and a server that may end  *)
(*             the feed by an empty 'next'                                 *)
(* SpecStop    scrape runs that can be stopped at any point                *)
(* SpecRepeat  scrape run again and again, under weak fairness             *)
(***************************************************************************)
EXTENDS Integers, Sequences, FiniteSets, TLC

(* ------------------------------ bounds -------------------------------- *)

\* rows in the remote feed
MaxFeed == 2
\* scrape invocations in one behaviour
MaxRuns == 2
\* largest --max-new-sample-count tried
MaxBudget == 2
\* last tick of the wall clock
MaxClock == 4
\* clock ticks per second: timestamps on disk and in reports have second
\* precision, datetime.now() has more
TicksPerSecond == 2

(* --------------------------- value universes -------------------------- *)

\* An optional value is a sequence of length 0 (absent) or 1 (present).
None == <<>>
Some(v) == <<v>>
IsSome(o) == Len(o) = 1
Get(o) == o[1]

\* rows the feed endpoint can serve: 'id' and 'kind' of a row (the other
\* fields of FeedItem are never read by scrape)
Rows ==
  { [id |-> "s1", kind |-> "file"],
    [id |-> "s2", kind |-> "file"],
    [id |-> "s3", kind |-> "url"],
    [id |-> "s4", kind |-> "fetch"] }

Ids == { r.id : r \in Rows }

Hashes == { "h1", "h2" }

\* memory addresses a HatchingSampleId object can live at
Addrs == { "0xa1", "0xa2" }

\* offsets of the local time zone against UTC, in ticks
TzOffsets == { 0, TicksPerSecond }

Budgets == 0 .. MaxBudget

\* rows on a page of the feed: the longest feed takes two pages
PageSize == IF MaxFeed > 1 THEN MaxFeed - 1 ELSE 1

RECURSIVE SeqsUpTo(_, _)
SeqsUpTo(S, n) ==
  IF n = 0 THEN { <<>> }
  ELSE LET shorter == SeqsUpTo(S, n - 1)
       IN  shorter \cup { Append(s, x) : s \in { t \in shorter : Len(t) = n - 1 }, x \in S }

(* ------------------------------- state -------------------------------- *)

VARIABLES
  \* the remote service
  feed,          \* rows of the public feed, in the order the server serves them
  pageSize,      \* rows the server puts on one page
  emptyNext,     \* TRUE: the last page carries an empty 'next' instead of none
  srv,           \* the answers of the report endpoint so far, by the text requested
  \* the machine
  tz,            \* offset of its local time against UTC, in ticks
  clock,         \* UTC wall clock, in ticks
  \* the target directory
  reports,       \* reports/: file name |-> content
  samples,       \* samples/: file name |-> content
  state,         \* state.json: absent, or its document
  \* the running scrape process
  pc,            \* "idle" (no process) or the place in the loop
  args,          \* parsed command line
  last_scrape,
  this_scrape,
  new_samples,
  gen,           \* the generator api.feed(use_pagination=True)
  feed_item,
  report,
  \* history
  runNo,         \* scrape processes started so far
  why,           \* how the loop of the running process ended ("" while it runs)
  lastExit,      \* how the latest finished process ended
  atStart,       \* state.json and the directory listings when the process started
  io,            \* requests the latest step sent to the remote
  dlCalls        \* calls of the sample-download endpoint, per artifact name (0, 1, 2 = more)

remote == <<feed, pageSize, emptyNext>>
machine == <<tz, clock>>
disk == <<reports, samples, state>>
proc == <<pc, args, last_scrape, this_scrape, new_samples, gen, feed_item, report>>
hist == <<runNo, why, lastExit, atStart, io, dlCalls>>
vars == <<remote, srv, machine, disk, proc, hist>>

(* ------------------------------ helpers ------------------------------- *)

\* datetime.datetime(1900, 1, 1, 0, 0, 0): before every other time
Year1900 == 0 - 100

\* strftime('%Y-%m-%dT%H:%M:%SZ'): the text keeps whole seconds only
Strftime(t) == [sec |-> t \div TicksPerSecond]

\* strptime(text, '%Y-%m-%dT%H:%M:%SZ')
Strptime(s) == s.sec * TicksPerSecond

\* F'{feed_item.id}': HatchingSampleId defines neither __str__ nor
\* __format__, so the text is object.__repr__, which names the address of
\* the object and not its value
FormatId(item) == item.addr

\* os.path.join(report_dir, F'{feed_item.id}.json')
ReportFileName(item) == FormatId(item)

\* [file for file in report['files'] if file['depth'] == 0]
RECURSIVE Depth0(_)
Depth0(files) ==
  IF files = <<>> THEN <<>>
  ELSE IF Head(files).depth = 0 THEN <<Head(files)>> \o Depth0(Tail(files))
       ELSE Depth0(Tail(files))

\* a plausible slip: the first root is taken when there are several
SomeRoot(files) == Len(files) >= 1

\* len(files) != 1 raises: exactly one file entry has depth 0
OneRoot(files) == Len(files) = 1

\* 'reported' in report['analysis'].keys()
HasReported(rep) == IsSome(rep.analysis.reported)

\* a plausible slip: --ignore-last-scrape-date parsed but never read
StopConditionFlagUnread(rep, last, ignore) ==
  /\ HasReported(rep)
  /\ Strptime(Get(rep.analysis.reported)) < last

\* reported_timestamp < last_scrape and not args.ignore_last_scrape_date
StopCondition(rep, last, ignore) ==
  /\ HasReported(rep)
  /\ Strptime(Get(rep.analysis.reported)) < last
  /\ ~ignore

\* What a file holds when the process stops between open(name, 'w') and the
\* end of the write that follows: a proper prefix of the content, possibly
\* nothing. No such prefix of a JSON document parses.
Cut == [cut |-> TRUE]

\* the file holds all that was to be written to it
Complete(file) == "cut" \notin DOMAIN file

\* new_samples >= args.max_new_sample_count
BudgetReached(n, max) == n >= max

\* `if offset:` -- an empty or zero continuation value counts as no offset
Truthy(o) == IsSome(o) /\ Get(o) # 0

(* ------------------------------ the remote ---------------------------- *)

Doc(rep, fs, s) == [analysis |-> [reported |-> rep], files |-> fs, sample |-> [sample |-> s]]
File(d, h) == [depth |-> d, sha256 |-> h]

\* What GET /samples/<text>/reports/static can answer: an error, or a report
\* -- one without 'reported', one reported in second 1, one with two roots,
\* one with no root. The first names as its root the hash of its sample's
\* bytes, the second another hash.
Answers ==
  { [status |-> 404],
    [status |-> 200, json |-> Doc(None, <<File(0, "h1"), File(1, "h2")>>, "s1")],
    [status |-> 200, json |-> Doc(Some([sec |-> 1]), <<File(1, "h1"), File(0, "h2")>>, "s1")],
    [status |-> 200, json |-> Doc(None, <<File(0, "h1"), File(0, "h2")>>, "s2")],
    [status |-> 200, json |-> Doc(Some([sec |-> 1]), <<File(1, "h1")>>, "s1")] }

\* The remote does not change: a request text is answered the same way
\* every time it is sent.
SrvReport(key, answer) ==
  /\ answer \in Answers
  /\ key \in DOMAIN srv => answer = srv[key]
  /\ srv' = (key :> answer) @@ srv

\* body of GET /samples/<sample>/sample
SampleBytes(s) == [bytes_of |-> s]

\* hashlib.sha256(sample_content).hexdigest()
Sha256(content) == IF content.bytes_of = "s1" THEN "h1" ELSE "h2"

\* a plausible slip: the file named as the `download` command names it, by
\* the hash of the bytes
SampleFileNameFromBytes(rep) == Sha256(SampleBytes(rep.sample.sample))

\* file = files[0]; os.path.join(sample_dir, file['sha256'])
SampleFileName(rep) == Depth0(rep.files)[1].sha256

\* One page of GET /samples: the rows after the first `pos`, and the
\* continuation value. The last page has no 'next', or an empty one when
\* the server marks the end that way.
FeedPage(pos, limit) ==
  LET n == Len(feed)
      size == IF limit < pageSize THEN limit ELSE pageSize
      last == IF pos + size < n THEN pos + size ELSE n
  IN  [data |-> SubSeq(feed, pos + 1, last),
       next |-> IF last < n THEN Some(last)
                ELSE IF emptyNext THEN Some(0) ELSE None]

(* ------------------------------- Init --------------------------------- *)

\* HatchingTriageApi.MAX_LIMIT, the default `limit` of feed()
MAX_LIMIT == 200

NoArgs == [command |-> "", max_new_sample_count |-> 0, ignore_last_scrape_date |-> FALSE]
NoGen == [owned |-> FALSE, use_pagination |-> FALSE, offset |-> None, page |-> None, idx |-> 0]
NoStart == [state |-> None, samples |-> {}, reports |-> {}]

\* An empty target directory, no process, any small feed on the remote (cut
\* into pages of PageSize rows, the last page without a 'next'), a machine
\* in UTC or east of it, and the clock half way through a second.
Init ==
  /\ feed \in SeqsUpTo(Rows, MaxFeed)
  /\ pageSize = PageSize
  /\ emptyNext = FALSE
  /\ srv = <<>>
  /\ tz \in TzOffsets
  /\ reports = <<>>
  /\ samples = <<>>
  /\ state = None
  /\ pc = "idle"
  /\ args = NoArgs
  /\ last_scrape = 0
  /\ this_scrape = 0
  /\ new_samples = 0
  /\ gen = NoGen
  /\ feed_item = None
  /\ report = None
  /\ clock = TicksPerSecond + 1
  /\ runNo = 0
  /\ why = ""
  /\ lastExit = "none"
  /\ atStart = NoStart
  /\ io = <<>>
  /\ dlCalls = [h \in Hashes |-> 0]

(* ------------------------------ actions ------------------------------- *)

Item == Get(feed_item)
Rep == Get(report)

\* the process is gone: nothing of it is left but what it wrote
ProcEnds(how) ==
  /\ pc' = "idle"
  /\ args' = NoArgs
  /\ last_scrape' = 0
  /\ this_scrape' = 0
  /\ new_samples' = 0
  /\ gen' = NoGen
  /\ feed_item' = None
  /\ report' = None
  /\ why' = ""
  /\ atStart' = NoStart
  /\ lastExit' = how

\* what `raise HatchingTriageException` is raised for
Errors == { "feed request failed", "depth-0 files", "download failed", "unknown kind" }

\* a plausible slip: the state write in a `finally`, so that it runs on errors too
RaiseAndPersist(cause) ==
  /\ ProcEnds(cause)
  /\ state' = Some([last_scrape |-> Strftime(this_scrape)])

\* HatchingTriageException reaches the handlers at the end of the file: it is
\* logged and the process ends, state.json as it was
Raise(cause) == ProcEnds(cause) /\ UNCHANGED state

Bump(n) == IF n < 2 THEN n + 1 ELSE 2

\* datetime.datetime.now(): naive local time
Now == clock + tz

\* `scrape <target_dir> --max-new-sample-count max [--ignore-last-scrape-date]`
\* up to the first request: the directories, state.json, this_scrape
ScrapeInit(max, ignore) ==
  /\ pc = "idle"
  /\ IsSome(state) => Complete(Get(state))
  /\ args' = [command |-> "scrape", max_new_sample_count |-> max,
              ignore_last_scrape_date |-> ignore]
  /\ last_scrape' = IF IsSome(state) THEN Strptime(Get(state).last_scrape) ELSE Year1900
  /\ this_scrape' = Now
  /\ new_samples' = 0
  /\ gen' = [owned |-> FALSE, use_pagination |-> TRUE, offset |-> None, page |-> None,
             idx |-> 0]
  /\ atStart' = [state |-> state, samples |-> DOMAIN samples, reports |-> DOMAIN reports]
  /\ pc' = "feed"
  /\ io' = <<>>
  /\ UNCHANGED <<remote, srv, machine, disk, feed_item, report, why, lastExit, dlCalls>>

\* one of the scrape runs of a behaviour
StartRun(max, ignore) ==
  /\ runNo < MaxRuns
  /\ runNo' = runNo + 1
  /\ ScrapeInit(max, ignore)

\* `feed [--owned]` up to the first request: api.feed(args.owned), one page
StartFeed(owned) ==
  /\ pc = "idle"
  /\ runNo < MaxRuns
  /\ runNo' = runNo + 1
  /\ args' = [NoArgs EXCEPT !.command = "feed"]
  /\ gen' = [owned |-> owned, use_pagination |-> FALSE, offset |-> None, page |-> None,
             idx |-> 0]
  /\ atStart' = [state |-> state, samples |-> DOMAIN samples, reports |-> DOMAIN reports]
  /\ pc' = "feed"
  /\ io' = <<>>
  /\ UNCHANGED <<remote, srv, machine, disk, last_scrape, this_scrape, new_samples,
                 feed_item, report, why, lastExit, dlCalls>>

\* feed(): one pass of `while True` up to the page's rows -- the request
FeedRequest ==
  /\ pc = "feed"
  /\ gen.page = None
  /\ LET offset == IF Truthy(gen.offset) THEN gen.offset ELSE None
         params == [subset |-> IF gen.owned THEN "owned" ELSE "public",
                    limit |-> MAX_LIMIT, offset |-> offset]
         pos == IF IsSome(offset) THEN Get(offset) ELSE 0
     IN  \E status \in {200, 500} :
           /\ io' = <<[op |-> "feed", params |-> params, status |-> status]>>
           /\ IF status # 200
              THEN Raise("feed request failed") /\ UNCHANGED <<reports, samples>>
              ELSE /\ gen' = [gen EXCEPT !.page = Some(FeedPage(pos, params.limit)), !.idx = 0]
                   /\ UNCHANGED <<disk, pc, args, last_scrape, this_scrape, new_samples,
                                  feed_item, report, why, lastExit, atStart>>
  /\ UNCHANGED <<remote, srv, machine, runNo, dlCalls>>

\* feed(): `yield FeedItem(...)` for the next row of the page; the new
\* HatchingSampleId lives where no live object does. Addresses are
\* interchangeable until one has been sent to the remote, so the first one
\* sent is taken to be "0xa1".
FeedYield ==
  /\ pc = "feed"
  /\ IsSome(gen.page)
  /\ gen.idx < Len(Get(gen.page).data)
  /\ LET row == Get(gen.page).data[gen.idx + 1]
         live == IF IsSome(feed_item) THEN {Item.addr} ELSE {}
     IN  \E a \in Addrs \ live :
           /\ srv = <<>> => a = "0xa1"
           /\ feed_item' = Some([id |-> row.id, kind |-> row.kind, addr |-> a])
  /\ gen' = [gen EXCEPT !.idx = gen.idx + 1]
  /\ report' = None
  /\ pc' = IF args.command = "scrape" THEN "report" ELSE "feed"
  /\ io' = <<>>
  /\ UNCHANGED <<remote, srv, machine, disk, args, last_scrape, this_scrape, new_samples,
                 runNo, why, lastExit, atStart, dlCalls>>

\* feed(): after the rows of a page -- the two `break`s and `offset = j['next']`
FeedPageEnd ==
  /\ pc = "feed"
  /\ IsSome(gen.page)
  /\ gen.idx = Len(Get(gen.page).data)
  /\ IF ~gen.use_pagination \/ Get(gen.page).next = None
     THEN IF args.command = "scrape"
          THEN /\ pc' = "finalize"
               /\ why' = "feed"
               /\ UNCHANGED <<gen, args, last_scrape, this_scrape, new_samples, feed_item,
                              report, lastExit, atStart>>
          ELSE ProcEnds("feed")
     ELSE /\ gen' = [gen EXCEPT !.offset = Get(gen.page).next, !.page = None, !.idx = 0]
          /\ UNCHANGED <<pc, why, args, last_scrape, this_scrape, new_samples, feed_item,
                         report, lastExit, atStart>>
  /\ io' = <<>>
  /\ UNCHANGED <<remote, disk, srv, machine, runNo, dlCalls>>

\* a plausible slip: no try/except around api.report, so the error ends the run
SkipItemAborts == Raise("report request failed") /\ UNCHANGED reports

\* except HatchingTriageException: logger.error(...); continue
SkipItem ==
  /\ pc' = "feed"
  /\ UNCHANGED <<reports, state, args, last_scrape, this_scrape, new_samples, gen,
                 feed_item, report, why, lastExit, atStart>>

\* "get report, either from API or local file system, cache on disk if from API"
GetReport ==
  /\ pc = "report"
  /\ ReportFileName(Item) \in DOMAIN reports => Complete(reports[ReportFileName(Item)])
  /\ LET name == ReportFileName(Item)
     IN  IF name \in DOMAIN reports
         THEN /\ report' = Some(reports[name].json)
              /\ pc' = "stop"
              /\ io' = <<>>
              /\ UNCHANGED <<srv, reports, state, args, last_scrape, this_scrape, new_samples,
                             gen, feed_item, why, lastExit, atStart>>
         ELSE \E response \in Answers :
                /\ SrvReport(FormatId(Item), response)
                /\ io' = <<[op |-> "report", sample_id |-> FormatId(Item), of |-> Item.id,
                            status |-> response.status]>>
                /\ IF response.status # 200
                   THEN SkipItem
                   ELSE /\ reports' = (name :> [json |-> response.json, of |-> Item.id]) @@ reports
                        /\ report' = Some(response.json)
                        /\ pc' = "stop"
                        /\ UNCHANGED <<state, args, last_scrape, this_scrape, new_samples,
                                       gen, feed_item, why, lastExit, atStart>>
  /\ UNCHANGED <<remote, machine, samples, runNo, dlCalls>>

\* "stop processing if report is older than last scrape"
StopCheck ==
  /\ pc = "stop"
  /\ IF StopCondition(Rep, last_scrape, args.ignore_last_scrape_date)
     THEN pc' = "finalize" /\ why' = "stop"
     ELSE pc' = "dispatch" /\ UNCHANGED why
  /\ io' = <<>>
  /\ UNCHANGED <<remote, disk, args, last_scrape, this_scrape, new_samples, gen, feed_item,
                 report, srv, machine, runNo, lastExit, atStart, dlCalls>>

\* a plausible slip: the download without the existence check
SampleNeverExists(name) == FALSE

\* os.path.exists(sample_file_name)
SampleExists(name) == name \in DOMAIN samples

\* "download sample": feed_item.kind == 'file'
DispatchFile ==
  /\ pc = "dispatch"
  /\ Item.kind = "file"
  /\ LET files == Depth0(Rep.files)
     IN  IF ~OneRoot(files)
         THEN Raise("depth-0 files") /\ io' = <<>> /\ UNCHANGED <<reports, samples, dlCalls>>
         ELSE LET name == SampleFileName(Rep)
              IN  IF SampleExists(name)
                  THEN /\ pc' = "budget"
                       /\ io' = <<>>
                       /\ UNCHANGED <<disk, args, last_scrape, this_scrape, new_samples, gen,
                                      feed_item, report, why, lastExit, atStart, dlCalls>>
                  ELSE \E status \in {200, 500} :
                         /\ io' = <<[op |-> "download", sample_id |-> Rep.sample.sample,
                                     name |-> name, status |-> status]>>
                         /\ dlCalls' = [dlCalls EXCEPT ![name] = Bump(@)]
                         /\ IF status # 200
                            THEN Raise("download failed") /\ UNCHANGED <<reports, samples>>
                            ELSE /\ samples' = (name :> SampleBytes(Rep.sample.sample)) @@ samples
                                 /\ new_samples' = new_samples + 1
                                 /\ pc' = "budget"
                                 /\ UNCHANGED <<reports, state, args, last_scrape, this_scrape,
                                                gen, feed_item, report, why, lastExit, atStart>>
  /\ UNCHANGED <<remote, srv, machine, runNo>>

\* feed_item.kind == 'url': "don't do anything with URLs"
DispatchUrl ==
  /\ pc = "dispatch"
  /\ Item.kind = "url"
  /\ pc' = "budget"
  /\ io' = <<>>
  /\ UNCHANGED <<remote, disk, args, last_scrape, this_scrape, new_samples, gen, feed_item,
                 report, srv, machine, runNo, why, lastExit, atStart, dlCalls>>

\* a plausible slip: every kind but 'file' falls through like 'url'
DispatchOtherPasses ==
  /\ pc = "dispatch"
  /\ Item.kind \notin {"file", "url"}
  /\ pc' = "budget"
  /\ io' = <<>>
  /\ UNCHANGED <<remote, disk, args, last_scrape, this_scrape, new_samples, gen, feed_item,
                 report, srv, machine, runNo, why, lastExit, atStart, dlCalls>>

\* else: raise HatchingTriageException('Unknown feed item type')
DispatchOther ==
  /\ pc = "dispatch"
  /\ Item.kind \notin {"file", "url"}
  /\ Raise("unknown kind")
  /\ io' = <<>>
  /\ UNCHANGED <<remote, srv, machine, reports, samples, runNo, dlCalls>>

\* if new_samples >= args.max_new_sample_count: break
BudgetCheck ==
  /\ pc = "budget"
  /\ IF BudgetReached(new_samples, args.max_new_sample_count)
     THEN pc' = "finalize" /\ why' = "budget"
     ELSE pc' = "feed" /\ UNCHANGED why
  /\ io' = <<>>
  /\ UNCHANGED <<remote, disk, args, last_scrape, this_scrape, new_samples, gen, feed_item,
                 report, srv, machine, runNo, lastExit, atStart, dlCalls>>

\* a plausible slip: the time of the write instead of the time of the start
LastScrapeWrittenNow == Strftime(Now)

\* this_scrape.strftime('%Y-%m-%dT%H:%M:%SZ'), the text written to state.json
LastScrapeWritten == Strftime(this_scrape)

\* "persist last scrape to avoid re-processing on next call"; the process ends
Finalize ==
  /\ pc = "finalize"
  /\ state' = Some([last_scrape |-> LastScrapeWritten])
  /\ ProcEnds(why)
  /\ io' = <<>>
  /\ UNCHANGED <<remote, srv, machine, reports, samples, runNo, dlCalls>>

\* Time passes. A process reads the clock when it starts and never again, so
\* the time spent in its loop, and up to the next start, passes before its
\* last step.
Tick ==
  /\ pc = "finalize"
  /\ clock < MaxClock
  /\ clock' = clock + 1
  /\ io' = <<>>
  /\ UNCHANGED <<remote, srv, tz, disk, proc, runNo, why, lastExit, atStart, dlCalls>>

Next ==
  \/ \E max \in Budgets, ignore \in BOOLEAN : StartRun(max, ignore)
  \/ FeedRequest
  \/ FeedYield
  \/ FeedPageEnd
  \/ GetReport
  \/ StopCheck
  \/ DispatchFile
  \/ DispatchUrl
  \/ DispatchOther
  \/ BudgetCheck
  \/ Finalize
  \/ Tick

Spec == Init /\ [][Next]_vars

(* ------------------------- the process stops ------------------------- *)

\* The process is stopped from outside (a signal, the machine going down)
\* between two steps of its loop: nothing is written.
Stop ==
  /\ pc # "idle"
  /\ ProcEnds("stopped")
  /\ io' = <<>>
  /\ UNCHANGED <<remote, srv, machine, disk, runNo, dlCalls>>

\* ... inside `with open(report_file_name, 'w') as fp: json.dump(report, fp)`
StopInReportWrite ==
  /\ pc = "report"
  /\ ReportFileName(Item) \notin DOMAIN reports
  /\ \E response \in Answers :
       /\ response.status = 200
       /\ SrvReport(FormatId(Item), response)
       /\ io' = <<[op |-> "report", sample_id |-> FormatId(Item), of |-> Item.id,
                   status |-> response.status]>>
  /\ reports' = (ReportFileName(Item) :> [cut |-> TRUE, of |-> Item.id]) @@ reports
  /\ ProcEnds("stopped")
  /\ UNCHANGED <<remote, machine, samples, state, runNo, dlCalls>>

\* ... inside `with open(sample_file_name, 'wb') as fp: fp.write(sample_content)`
StopInSampleWrite ==
  /\ pc = "dispatch"
  /\ Item.kind = "file"
  /\ OneRoot(Depth0(Rep.files))
  /\ LET name == SampleFileName(Rep)
     IN  /\ ~SampleExists(name)
         /\ io' = <<[op |-> "download", sample_id |-> Rep.sample.sample,
                     name |-> name, status |-> 200]>>
         /\ dlCalls' = [dlCalls EXCEPT ![name] = Bump(@)]
         /\ samples' = (name :> Cut) @@ samples
  /\ ProcEnds("stopped")
  /\ UNCHANGED <<remote, srv, machine, reports, state, runNo>>

\* ... inside `with open(state_file, 'w') as fp: json.dump({...}, fp)`
StopInStateWrite ==
  /\ pc = "finalize"
  /\ state' = Some(Cut)
  /\ ProcEnds("stopped")
  /\ io' = <<>>
  /\ UNCHANGED <<remote, srv, machine, reports, samples, runNo, dlCalls>>

\* scrape with a state.json that does not parse: json.load(fp) raises
\* json.JSONDecodeError, which no handler catches, before anything is done
StartRunStateUnreadable ==
  /\ pc = "idle"
  /\ runNo < MaxRuns
  /\ IsSome(state) /\ ~Complete(Get(state))
  /\ runNo' = runNo + 1
  /\ lastExit' = "state.json unreadable"
  /\ io' = <<>>
  /\ UNCHANGED <<remote, srv, machine, disk, proc, why, atStart, dlCalls>>

\* the report file of the item exists and does not parse: json.load(fp)
\* raises json.JSONDecodeError, which no handler catches
GetReportUnreadable ==
  /\ pc = "report"
  /\ ReportFileName(Item) \in DOMAIN reports
  /\ ~Complete(reports[ReportFileName(Item)])
  /\ ProcEnds("report unreadable")
  /\ io' = <<>>
  /\ UNCHANGED <<remote, srv, machine, disk, runNo, dlCalls>>

NextStop ==
  \/ Next
  \/ Stop
  \/ StopInReportWrite
  \/ StopInSampleWrite
  \/ StopInStateWrite
  \/ StartRunStateUnreadable
  \/ GetReportUnreadable

\* scrape runs that can be stopped at any point
SpecStop == Init /\ [][NextStop]_vars

(* --------------------------- repeated runs ---------------------------- *)

\* One more `scrape <target_dir> --max-new-sample-count max` after the runs
\* counted by runNo, without --ignore-last-scrape-date.
Rerun(max) ==
  /\ runNo = MaxRuns
  /\ UNCHANGED runNo
  /\ ScrapeInit(max, FALSE)

NextRepeat ==
  \/ Next
  \/ \E max \in Budgets \ {0} : Rerun(max)

\* scrape is run again and again, and a process that can take a step takes it
SpecRepeat == Init /\ [][NextRepeat]_vars /\ WF_vars(NextRepeat)

\* The two commands that iterate the feed, `scrape` (with pagination) and
\* `feed` (one page), against a server that ends the feed either way: by a
\* last page without 'next' or by one with an empty 'next'.
InitFeed ==
  /\ feed \in SeqsUpTo(Rows, MaxFeed)
  /\ pageSize = PageSize
  /\ emptyNext \in BOOLEAN
  /\ srv = <<>>
  /\ tz = 0
  /\ reports = <<>>
  /\ samples = <<>>
  /\ state = None
  /\ pc = "idle"
  /\ args = NoArgs
  /\ last_scrape = 0
  /\ this_scrape = 0
  /\ new_samples = 0
  /\ gen = NoGen
  /\ feed_item = None
  /\ report = None
  /\ clock = TicksPerSecond + 1
  /\ runNo = 0
  /\ why = ""
  /\ lastExit = "none"
  /\ atStart = NoStart
  /\ io = <<>>
  /\ dlCalls = [h \in Hashes |-> 0]

NextFeed ==
  \/ \E owned \in BOOLEAN : StartFeed(owned)
  \/ Next

SpecFeed == InitFeed /\ [][NextFeed]_vars

(* ------------------------------ properties ---------------------------- *)

Running == pc # "idle"
Exits == pc # "idle" /\ pc' = "idle"
UnknownKind(item) == item.kind \notin {"file", "url"}
\* artifact files the running process has written
NewArtifacts == DOMAIN samples \ atStart.samples
\* the persisted watermark the running process started from
Watermark == IF IsSome(atStart.state) THEN Strptime(Get(atStart.state).last_scrape) ELSE Year1900
Stale(rep) == HasReported(rep) /\ Strptime(Get(rep.analysis.reported)) < Watermark
Sent(op, status) == { i \in 1 .. Len(io') : io'[i].op = op /\ io'[i].status = status }

C2_Budget ==
  Running =>
    /\ Cardinality(NewArtifacts) <= args.max_new_sample_count
    /\ (NewArtifacts # {} /\ Cardinality(NewArtifacts) >= args.max_new_sample_count)
         => pc \in {"budget", "finalize"}

\* C3: in a run that follows a run ended without a fatal error (the remote is
\* the same throughout), no step changes reports/ or samples/.
C3_Idempotent ==
  [][ (Running /\ runNo >= 2 /\ lastExit \notin Errors)
        => UNCHANGED <<reports, samples>> ]_vars

\* C4 as claimed: once the download endpoint has been called for an artifact
\* name it has been called exactly once and the artifact is on disk.
C4_ExactlyOnce ==
  \A h \in Hashes : dlCalls[h] >= 1 => dlCalls[h] = 1 /\ SampleExists(h)

\* C4: over any sequence of runs, an artifact on disk is never written again
\* nor removed and the download endpoint is not called for its name again; a
\* file appears in samples/ only in a step whose one request is a successful
\* download for that name, and every successful download writes its file. So
\* per sha256 there is at most one successful download and at most one write.
C4_AtMostOnce ==
  [][ \A h \in Hashes :
        LET calls == { i \in 1 .. Len(io') : io'[i].op = "download" /\ io'[i].name = h }
        IN  /\ h \in DOMAIN samples =>
                 /\ h \in DOMAIN samples' /\ samples'[h] = samples[h]
                 /\ calls = {}
                 /\ dlCalls'[h] = dlCalls[h]
            /\ (h \notin DOMAIN samples /\ h \in DOMAIN samples') =>
                 Len(io') = 1 /\ calls = {1} /\ io'[1].status = 200
            /\ (\E i \in calls : io'[i].status = 200) =>
                 h \notin DOMAIN samples /\ h \in DOMAIN samples'
    ]_vars

\* a second file item naming an artifact that an earlier download put on disk
\* has passed the dispatch without a request
C4_Witness ==
  /\ pc = "budget" /\ Item.kind = "file" /\ io = <<>>
  /\ \E h \in Hashes : Depth0(Rep.files)[1].sha256 = h /\ dlCalls[h] = 1 /\ SampleExists(h)

\* C5: no report request succeeds for a sample id for which a fetched report
\* is stored already.
C5_OneFetchPerId ==
  [][ \A i \in Sent("report", 200) :
        ~ \E name \in DOMAIN reports : reports[name].of = io'[i].of ]_vars

\* C6: when the loop turns to the cache for an item, the entries stored for
\* the item's sample id are exactly the one entry it consults (none when
\* nothing is stored for the id): the same id always gives the same entry and
\* different ids never share one.
C6_EntryById ==
  pc = "report" =>
    \A name \in DOMAIN reports :
      (reports[name].of = Item.id) <=> (name = ReportFileName(Item))

\* C7: every end of the loop (end of feed, budget, stop condition) leads to
\* the write of state.json, the process ends without an error only with that
\* write, and what it writes is this_scrape, read from the clock when the
\* process started and never assigned again, in the text form of state.json.
C7_WatermarkFromStart ==
  [][ /\ (pc = "idle" /\ pc' # "idle") => this_scrape' = clock + tz
      /\ (Running /\ pc' # "idle") => this_scrape' = this_scrape
      /\ (why = "" /\ why' # "") => why' \in {"feed", "budget", "stop"} /\ pc' = "finalize"
      /\ (Exits /\ lastExit' \notin Errors) =>
           /\ pc = "finalize" /\ lastExit' = why
           /\ state' = Some([last_scrape |-> Strftime(this_scrape)])
    ]_vars

\* a run that started in second 1 has ended on its budget and written
\* second 1, with the clock in a later second by then
C7_Witness ==
  /\ pc = "idle" /\ lastExit = "budget" /\ runNo = 1
  /\ tz = 0
  /\ state = Some([last_scrape |-> Strftime(TicksPerSecond + 1)])
  /\ Strftime(clock) # Strftime(TicksPerSecond + 1)

\* C8: a process that ends by a fatal error leaves state.json as it was when
\* the process started; nothing writes it before the end of the loop.
C8_FatalKeepsWatermark ==
  [][ /\ Running /\ pc # "finalize" => state' = state /\ state = atStart.state
      /\ (Exits /\ lastExit' \in Errors) => state' = atStart.state
    ]_vars

\* a second run has ended by a fatal error with the watermark of the first in place
C8_Witness ==
  /\ pc = "idle" /\ lastExit \in Errors /\ runNo = 2
  /\ IsSome(state)

C10_AbortsOnReach ==
  (IsSome(feed_item) /\ UnknownKind(Item)) => pc \in {"report", "stop", "dispatch"}

\* C10: an item of unknown kind whose report the loop holds and for which the
\* stop condition does not fire reaches the kind dispatch, and there the
\* process ends by a fatal error with state.json as it was at the start.
C10_AbortsAtDispatch ==
  [][ /\ (pc = "stop" /\ UnknownKind(Item)
            /\ ~StopCondition(Rep, last_scrape, args.ignore_last_scrape_date))
           => pc' = "dispatch"
      /\ (pc = "dispatch" /\ UnknownKind(Item))
           => /\ pc' = "idle" /\ lastExit' = "unknown kind"
              /\ state' = atStart.state
              /\ UNCHANGED <<reports, samples>>
    ]_vars

\* a second run has aborted on an unknown kind with the watermark of the first in place
C10_Witness ==
  /\ pc = "idle" /\ lastExit = "unknown kind" /\ runNo = 2
  /\ IsSome(state)

\* C11 as claimed: the loop does not end normally at a file item whose
\* report has no or several depth-0 entries: the item goes on to the dispatch
\* and the process ends there by a fatal error.
C11_AbortsOnReport ==
  [][ (pc = "stop" /\ Item.kind = "file" /\ Len(Depth0(Rep.files)) # 1)
        => pc' = "dispatch" ]_vars

\* C11: a file item whose report has no or several depth-0 entries and for
\* which the stop condition does not fire reaches the dispatch, and there the
\* process ends by a fatal error: no request is sent, nothing under reports/
\* or samples/ is created or changed, and state.json is as it was at the start.
C11_AbortsAtDispatch ==
  [][ /\ (pc = "stop" /\ Item.kind = "file" /\ Len(Depth0(Rep.files)) # 1
            /\ ~StopCondition(Rep, last_scrape, args.ignore_last_scrape_date))
           => pc' = "dispatch"
      /\ (pc = "dispatch" /\ Item.kind = "file" /\ Len(Depth0(Rep.files)) # 1)
           => /\ pc' = "idle" /\ lastExit' = "depth-0 files"
              /\ io' = <<>>
              /\ UNCHANGED <<reports, samples, dlCalls>>
              /\ state' = atStart.state
    ]_vars

\* two runs have aborted on the depth-0 check, one on a report with two
\* roots and one on a report with none, and nothing was downloaded
C11_Witness ==
  /\ pc = "idle" /\ lastExit = "depth-0 files" /\ runNo = 2
  /\ \E n1, n2 \in DOMAIN reports :
       /\ Len(Depth0(reports[n1].json.files)) = 0
       /\ Len(Depth0(reports[n2].json.files)) = 2
  /\ samples = <<>> /\ state = None

\* every row of the feed is a file item
AllFileItems == \A i \in 1 .. Len(feed) : feed[i].kind = "file"
\* every report request so far was answered with a report
AllReportsServed == \A k \in DOMAIN srv : srv[k].status = 200
\* the reports served name pairwise distinct depth-0 files
DistinctRoots ==
  \A k1, k2 \in DOMAIN srv :
    k1 # k2 => Depth0(srv[k1].json.files) # Depth0(srv[k2].json.files)

\* C12: a run started in an empty target directory does not end by the stop
\* condition; when its feed has n file items with distinct depth-0 hashes,
\* its budget is above n and every request succeeds, it ends at the end of
\* the feed with n artifacts, n reports and a state.json whose time is not
\* before the time the run started.
C12_FirstRun ==
  [][ (pc = "finalize" /\ pc' = "idle" /\ runNo = 1)
        => /\ why # "stop"
           /\ (/\ args.max_new_sample_count > Len(feed)
               /\ AllFileItems /\ AllReportsServed /\ DistinctRoots)
                => /\ why = "feed"
                   /\ Cardinality(DOMAIN samples') = Len(feed)
                   /\ Cardinality(DOMAIN reports') = Len(feed)
                   /\ IsSome(state')
                   /\ Strptime(Get(state').last_scrape) >= this_scrape
    ]_vars

\* the second, on the UTC clock, in which the run that wrote the watermark started
WatermarkSecondUTC == Strftime(Watermark - tz).sec

\* C13: an item reported at an instant at or after the start of the run that
\* wrote the watermark carries a 'reported' second at or after the second of
\* that start; the stop condition of the next run does not fire for a report
\* with such a 'reported', and the item goes to the dispatch.
C13_NotCutOff ==
  [][ (/\ pc = "stop" /\ IsSome(atStart.state)
       /\ HasReported(Rep)
       /\ Get(Rep.analysis.reported).sec >= WatermarkSecondUTC)
        => pc' = "dispatch" ]_vars

\* the step sends a page request of the feed
FeedRequestSent == Len(io') = 1 /\ io'[1].op = "feed"
\* the generator has used up the rows of the page it holds
AtPageEnd == pc = "feed" /\ IsSome(gen.page) /\ gen.idx = Len(Get(gen.page).data)
\* the page the generator holds is the last one the server has
LastPage == Get(gen.page).next \in {None, Some(0)}

\* C14: every page request carries subset and limit; the first carries no
\* offset; when the generator goes on after a page it keeps that page's
\* 'next', and the request that follows carries it as offset.
C14_OffsetIsNext ==
  [][ /\ FeedRequestSent =>
           /\ io'[1].params.subset = (IF gen.owned THEN "owned" ELSE "public")
           /\ io'[1].params.limit = MAX_LIMIT
           /\ io'[1].params.offset = gen.offset
      /\ (pc = "idle" /\ pc' = "feed") => gen'.offset = None
      /\ (AtPageEnd /\ pc' = "feed") => gen'.offset = Get(gen.page).next /\ IsSome(gen'.offset)
    ]_vars

\* C15: the generator yields the rows of a page once and in the order of the
\* page; without pagination it ends after the rows of its one page; with
\* pagination it ends after the rows of the server's last page and goes on
\* to the next page after any other.
C15_FeedEnds ==
  [][ /\ (pc = "feed" /\ IsSome(gen.page) /\ ~AtPageEnd) =>
           /\ IsSome(feed_item')
           /\ Get(feed_item').id = Get(gen.page).data[gen.idx + 1].id
           /\ gen' = [gen EXCEPT !.idx = gen.idx + 1]
      /\ (FeedRequestSent /\ ~gen.use_pagination) => gen.offset = None
      /\ (AtPageEnd /\ (~gen.use_pagination \/ LastPage)) => pc' \in {"finalize", "idle"}
      /\ (AtPageEnd /\ gen.use_pagination /\ ~LastPage) =>
           pc' = "feed" /\ gen'.page = None
    ]_vars

\* C16: every file under reports/ holds a complete report document, whatever
\* the point at which a process stopped.
C16_ReportWriteAtomic ==
  \A name \in DOMAIN reports : Complete(reports[name])

\* C17: state.json is absent or holds a complete watermark document,
\* whatever the point at which a process stopped.
C17_StateWriteAtomic ==
  IsSome(state) => Complete(Get(state))

\* C20: every file under samples/ holds the complete bytes the download
\* endpoint returned for it, whatever the point at which a process stopped.
C20_ArtifactsComplete ==
  \A h \in DOMAIN samples : Complete(samples[h])

\* the place in the feed of the row the loop holds
ItemIndex == (IF Truthy(gen.offset) THEN Get(gen.offset) ELSE 0) + gen.idx
\* file rows of the feed after the row the loop holds
FileRowsAhead == { i \in ItemIndex + 1 .. Len(feed) : feed[i].kind = "file" }
\* a request of the latest step failed
RequestFailed == \E i \in 1 .. Len(io) : io[i].status # 200

\* C18: when a run ends on its budget with file rows of the feed not yet
\* taken, then, with scrape run again and again without
\* --ignore-last-scrape-date, a later run takes the last of these rows to the
\* dispatch -- unless a request fails or a run ends by a fatal error.
C18_Resumes ==
  \A last \in 1 .. MaxFeed :
    (pc = "finalize" /\ why = "budget" /\ FileRowsAhead # {}
       /\ \A i \in FileRowsAhead : i <= last)
    ~> \/ pc = "dispatch" /\ ItemIndex >= last
       \/ RequestFailed
       \/ pc = "idle" /\ lastExit \in Errors

\* C19: every file under samples/ bears the sha256 of the one depth-0 entry
\* of a report stored under reports/ and holds the bytes of the sample that
\* report names, and every download request is for the sample and under the
\* name of a report already stored.
C19_NamedByReport ==
  /\ \A h \in DOMAIN samples :
       \E n \in DOMAIN reports :
         /\ OneRoot(Depth0(reports[n].json.files))
         /\ Depth0(reports[n].json.files)[1].sha256 = h
         /\ samples[h] = SampleBytes(reports[n].json.sample.sample)
  /\ \A i \in 1 .. Len(io) :
       io[i].op = "download" =>
         \E n \in DOMAIN reports :
           /\ OneRoot(Depth0(reports[n].json.files))
           /\ Depth0(reports[n].json.files)[1].sha256 = io[i].name
           /\ reports[n].json.sample.sample = io[i].sample_id

\* an artifact is on disk under a name that is not the hash of its bytes
C19_Witness ==
  \E h \in DOMAIN samples : Sha256(samples[h]) # h
====
